---- MODULE Spec2Model ----
(***************************************************************************)
(* HearThis player (src/listenathearthisat.py): the playback and playlist  *)
(* continuity engine of HearThisApp on top of GstPlayer.                   *)
(*                                                                         *)
(* Threads: the GTK main loop runs the user handlers, the bus handlers     *)
(* (EOS, ERROR, TAG: bus.add_signal_watch) and the GLib.idle_add           *)
(* callbacks, one at a time.  playbin emits "about-to-finish" from a       *)
(* streaming thread, so HearThisApp._on_about_to_finish runs there and its *)
(* steps interleave with the main loop's handlers.  Cover fetches run in   *)
(* worker threads and hand their result back with GLib.idle_add.           *)
(*                                                                         *)
(* Python's None and the empty string are both falsy and the code only     *)
(* tests truthiness, so an absent field is the empty string here.          *)
(***************************************************************************)
EXTENDS Integers, Sequences, FiniteSets, TLC

VARIABLES
    local_tracks,         \* self.local_tracks: the "all" playlist
    selected_tracks,      \* self.selected_tracks: the "selected" playlist
    current_playlist,     \* self.current_playlist: "all" | "selected"
    current_index,        \* self.current_index
    uri,                  \* playbin's "uri" property
    gst,                  \* playbin's state: "NULL" | "PLAYING" | "PAUSED"
    staged,               \* playbin holds a next uri set by about-to-finish, not yet switched to
    icon,                 \* playpause_btn's icon name
    now_title,            \* now_title label
    now_meta,             \* now_meta label
    now_cover,            \* now_cover's paintable
    last_stream_texture,  \* self.last_stream_texture
    idleQ,                \* callbacks queued with GLib.idle_add, oldest first
    workers,              \* cover urls being fetched by worker threads
    atf,                  \* the streaming thread inside _on_about_to_finish: pc and locals
    is_seeking,           \* self.is_seeking: the seeking latch
    scale_value,          \* pos_scale's value
    scale_upper,          \* pos_scale's upper bound (set_range)
    sensitive,            \* pos_scale's sensitivity
    time_label,           \* time_label's text, as <<position, duration>> in seconds
    poll_armed,           \* the GLib.timeout_add source of update_position is installed
    pages,                \* _fetch_page threads in flight: [kind: "replace" | "append", query]
    query,                \* current_mode/param/page: the queries and page changes so far
    local_from,           \* history: the queries whose records local_tracks holds
    current_mode,         \* self.current_mode: "" until a first query, then its kind
    seeks,                \* history: seek_seconds calls since the latch was last set
    lastOp,               \* history: the operation that ran last and its arguments
    trans,                \* history: how far about-to-finish took the current transition
    scen                  \* history: progress through the two-track scenario

playVars == <<current_playlist, current_index, uri, gst, staged, icon,
              now_title, now_meta, now_cover, workers>>
listVars == <<local_tracks, selected_tracks>>
pageVars == <<pages, current_mode, query, local_from>>
seekVars == <<is_seeking, scale_value, scale_upper, sensitive, time_label, poll_armed,
              seeks>>
vars == <<local_tracks, selected_tracks, current_playlist, current_index, uri, gst,
          staged, icon, now_title, now_meta, now_cover, last_stream_texture, idleQ,
          workers, atf, is_seeking, scale_value, scale_upper, sensitive, time_label,
          poll_armed,
          pages, current_mode, query, local_from, seeks, lastOp, trans, scen>>

----------------------------------------------------------------------------
(* Bounds *)

\* records in the two playlists together
MaxTracks == 3
\* callbacks GLib holds at a time
MaxIdle == 1
\* records the user adds to "selected"
MaxSelected == 2
\* queries and page changes the user makes
MaxQueries == 2
\* seconds a stream lasts
MaxPos == 2
\* slider movements within one gesture
MaxMoves == 2

----------------------------------------------------------------------------
(* Track records: the dicts of the API, with the fields the player reads.  *)
(* art is the first non-empty of artwork_url, thumb, images.thumbnail.     *)

MkTrack(title, user, genre, category, stream, art) ==
    [title |-> title, user |-> user, genre |-> genre, category |-> category,
     stream_url |-> stream, art |-> art]

\* TrackA has every field, TrackB neither title nor user, TrackN no stream.
TrackA == MkTrack("A", "ua", "house", "", "s1", "http://img/a.jpg")
TrackB == MkTrack("", "", "", "rock", "s2", "cover.png")
TrackN == MkTrack("N", "", "", "", "", "")
NoTrack == MkTrack("", "", "", "", "", "")

Tracks == {TrackA, TrackB, TrackN}

SeqsUpTo(S, n) == UNION {[1..k -> S] : k \in 0..n}

PAUSE_ICON == "media-playback-pause-symbolic"
START_ICON == "media-playback-start-symbolic"

NoTexture == [src |-> "none", id |-> ""]
RemoteTexture(url) == [src |-> "remote", id |-> url]
EmbeddedTexture == [src |-> "embedded", id |-> "id3"]

----------------------------------------------------------------------------
(* Helpers of _play_track_from and _update_now_playing_labels *)

NowTitleOf_Raw(t) == t.title

\* title = t.get("title") or "Unknown"
NowTitleOf(t) == IF t.title # "" THEN t.title ELSE "Unknown"

\* genre = t.get("genre") or (t.get("category") or "")
GenreOf(t) == IF t.genre # "" THEN t.genre ELSE t.category

MetaLineOf_UserOnly(t) == t.user

\* meta_line = user if user else (f"genre: {genre}" if genre else "")
MetaLineOf(t) ==
    IF t.user # "" THEN t.user
    ELSE IF GenreOf(t) # "" THEN "genre: " \o GenreOf(t) ELSE ""

HasStream_Unchecked(t) == TRUE

\* stream = t.get("stream_url"); if not stream: return
HasStream(t) == t.stream_url # ""

\* cover and cover.startswith("http")
IsHttp(cover) == Len(cover) >= 4 /\ SubSeq(cover, 1, 4) = "http"

PlaylistOf(name) == IF name = "selected" THEN selected_tracks ELSE local_tracks

\* 0 <= index < len(playlist)
InRange(name, index) == 0 <= index /\ index < Len(PlaylistOf(name))

\* the record at a 0-based index
At(name, index) == PlaylistOf(name)[index + 1]

----------------------------------------------------------------------------
(* Idle callbacks *)

LabelsCb(t) ==
    [kind |-> "labels", track |-> t, title |-> "", artist |-> "", genre |-> "",
     tex |-> NoTexture, late |-> FALSE]
TagsCb(title, artist, genre, late) ==
    [kind |-> "tags", track |-> NoTrack, title |-> title, artist |-> artist,
     genre |-> genre, tex |-> NoTexture, late |-> late]
CoverCb(tex) ==
    [kind |-> "cover", track |-> NoTrack, title |-> "", artist |-> "", genre |-> "",
     tex |-> tex, late |-> FALSE]

----------------------------------------------------------------------------
(* History records *)

\* lastOp: the operation that ran last.  pl, idx: the arguments of playAt, or the
\* cursor that eos and error found.  info: for playAt, what the caller got back;
\* for eos, whether about-to-finish had moved the cursor for the playing track and
\* playbin had not switched yet ("adv"), had not fired ("none"), or anything else
\* ("other"); for a tags callback, "late" when its event was emitted by the
\* outgoing track after the next track's labels were shown.  For a poll tick idx is
\* the duration query_pos_dur returned.
Op(op, pl, idx, info) == [op |-> op, pl |-> pl, idx |-> idx, info |-> info]
OtherOp == Op("other", "all", -1, "none")

\* trans.phase: "none" (about-to-finish has not fired for the playing track),
\* "fired", "advanced" (cursor moved, labels queued), "published" (those labels
\* shown and nothing has touched them since), "noop" (fired and staged nothing),
\* "stale" (anything else).  pl, idx: the cursor when the signal fired.
Trans(phase, pl, idx) == [phase |-> phase, pl |-> pl, idx |-> idx]
NoTrans == Trans("none", "all", -1)

AtfIdle == [pc |-> "idle", nxt |-> -1, t |-> NoTrack]

----------------------------------------------------------------------------
\* Gtk.Scale.new_with_range(HORIZONTAL, 0, 100, 1)
InitialUpper == 100

(* Init: the state __init__ leaves, with the two playlists as earlier page  *)
(* loads and "Add to Selected" clicks can have left them.                   *)

Init ==
    /\ local_tracks \in SeqsUpTo(Tracks, MaxTracks)
    /\ selected_tracks \in SeqsUpTo(Tracks, MaxTracks - Len(local_tracks))
    /\ current_playlist = "all"
    /\ current_index = -1
    /\ uri = ""
    /\ gst = "NULL"
    /\ staged = FALSE
    /\ icon = START_ICON
    /\ now_title = ""
    /\ now_meta = ""
    /\ now_cover = NoTexture
    /\ last_stream_texture = NoTexture
    /\ idleQ = <<>>
    /\ workers = {}
    /\ atf = AtfIdle
    /\ is_seeking = FALSE
    /\ scale_value = 0
    /\ scale_upper = InitialUpper
    /\ sensitive = TRUE
    /\ time_label = <<0, 0>>
    /\ poll_armed = TRUE
    /\ pages = {}
    /\ current_mode = IF local_tracks = <<>> /\ selected_tracks = <<>> THEN "" ELSE "search"
    /\ query = IF local_tracks = <<>> /\ selected_tracks = <<>> THEN 0 ELSE 1
    /\ local_from = IF local_tracks = <<>> THEN {} ELSE {1}
    /\ seeks = 0
    /\ lastOp = OtherOp
    /\ trans = NoTrans
    /\ scen = 0

----------------------------------------------------------------------------
(* _advance_index *)

AdvanceIndexOf_Wrap(total, cur) ==
    IF total = 0 THEN -1
    ELSE IF cur + 1 >= total THEN 0
    ELSE cur + 1

AdvanceIndexOf_OffByOne(total, cur) ==
    IF total = 0 THEN -1
    ELSE IF cur + 1 > total THEN -1
    ELSE cur + 1

AdvanceIndexOf_Stay(total, cur) ==
    IF total = 0 THEN -1
    ELSE IF cur + 1 >= total THEN -1
    ELSE cur

AdvanceIndexOf(total, cur) ==
    IF total = 0 THEN -1
    ELSE IF cur + 1 >= total THEN -1
    ELSE cur + 1

AdvanceIndex == AdvanceIndexOf(Len(PlaylistOf(current_playlist)), current_index)

----------------------------------------------------------------------------
(* _play_track_from.  set_uri + play start the given stream, which drops a  *)
(* uri staged by about-to-finish.                                           *)

PlayTrackFrom(playlist_name, index) ==
    IF ~InRange(playlist_name, index)
    THEN UNCHANGED playVars
    ELSE LET t == At(playlist_name, index)
             cover == t.art
         IN  IF ~HasStream(t)
             THEN UNCHANGED playVars
             ELSE /\ current_playlist' = (IF playlist_name = "selected" THEN "selected" ELSE "all")
                  /\ current_index' = index
                  /\ uri' = t.stream_url
                  /\ gst' = "PLAYING"
                  /\ staged' = FALSE
                  /\ icon' = PAUSE_ICON
                  /\ now_title' = NowTitleOf(t)
                  /\ now_meta' = MetaLineOf(t)
                  /\ IF IsHttp(cover)
                     THEN workers' = workers \cup {cover} /\ UNCHANGED now_cover
                     ELSE now_cover' = NoTexture /\ UNCHANGED workers

\* What the caller of _play_track_from gets: each return is a bare return and the
\* function raises nothing of its own, so it is None on every path.
PlayResult(playlist_name, index) == "None"

Plays(playlist_name, index) ==
    InRange(playlist_name, index) /\ HasStream(At(playlist_name, index))

\* The two-track scenario starts: playAt(all, 0) on a quiet player whose "all"
\* holds two playable records.
ScenStart(playlist_name, index) ==
    /\ playlist_name = "all" /\ index = 0
    /\ Len(local_tracks) = 2
    /\ HasStream(local_tracks[1]) /\ HasStream(local_tracks[2])
    /\ idleQ = <<>> /\ atf.pc = "idle"

\* on_row_activated / on_row_activated_selected.  The rows mirror the lists, so the
\* UI passes indices in range; the function is also given the index before the
\* first and the one past the last.
PlayAt(playlist_name, index) ==
    /\ PlayTrackFrom(playlist_name, index)
    /\ lastOp' = Op("playAt", playlist_name, index, PlayResult(playlist_name, index))
    /\ trans' = IF Plays(playlist_name, index) THEN NoTrans ELSE trans
    /\ scen' = IF ScenStart(playlist_name, index) THEN 1 ELSE 0
    /\ UNCHANGED <<listVars, last_stream_texture, idleQ, atf>>
    /\ UNCHANGED <<seekVars, pageVars>>

----------------------------------------------------------------------------
(* _on_about_to_finish, on the streaming thread, in three steps *)

\* nxt = self._advance_index(); if nxt < 0: return
AtfBegin ==
    /\ gst = "PLAYING"
    /\ atf.pc = "idle"
    /\ LET nxt == AdvanceIndex
       IN  /\ atf' = IF nxt < 0 THEN AtfIdle
                     ELSE [pc |-> "computed", nxt |-> nxt, t |-> NoTrack]
           /\ trans' = Trans(IF nxt < 0 THEN "noop" ELSE "fired",
                             current_playlist, current_index)
           /\ scen' = IF scen = 1 /\ nxt >= 0 THEN 1
                      ELSE IF scen = 4 THEN 5 ELSE 0
    /\ lastOp' = OtherOp
    /\ UNCHANGED <<listVars, playVars, last_stream_texture, idleQ>>
    /\ UNCHANGED <<seekVars, pageVars>>

\* t = <active list>[nxt] (an IndexError ends the handler); stream = t.get("stream_url")
AtfFetch ==
    /\ atf.pc = "computed"
    /\ LET ok == Plays(current_playlist, atf.nxt)
       IN  /\ atf' = IF ok THEN [atf EXCEPT !.pc = "fetched",
                                            !.t = At(current_playlist, atf.nxt)]
                     ELSE AtfIdle
           /\ trans' = IF ok THEN trans ELSE [trans EXCEPT !.phase = "noop"]
    /\ scen' = IF scen = 1 THEN 1 ELSE 0
    /\ lastOp' = OtherOp
    /\ UNCHANGED <<listVars, playVars, last_stream_texture, idleQ>>
    /\ UNCHANGED <<seekVars, pageVars>>

\* playbin.set_property("uri", stream); self.current_index = nxt; GLib.idle_add(labels, t)
AtfCommit ==
    /\ atf.pc = "fetched"
    /\ Len(idleQ) < MaxIdle
    /\ uri' = atf.t.stream_url
    /\ staged' = TRUE
    /\ current_index' = atf.nxt
    /\ idleQ' = Append(idleQ, LabelsCb(atf.t))
    /\ atf' = AtfIdle
    /\ trans' = [trans EXCEPT !.phase = IF trans.phase = "fired" THEN "advanced" ELSE "stale"]
    /\ scen' = IF scen = 1 /\ trans.phase = "fired" THEN 2 ELSE 0
    /\ lastOp' = OtherOp
    /\ UNCHANGED <<listVars, current_playlist, gst, icon, now_title, now_meta, now_cover,
                   workers, last_stream_texture>>
    /\ UNCHANGED <<seekVars, pageVars>>

\* playbin switches to the staged uri at the end of the playing stream
StreamSwitch ==
    /\ staged
    /\ gst = "PLAYING"
    /\ staged' = FALSE
    /\ trans' = NoTrans
    /\ scen' = 0
    /\ lastOp' = OtherOp
    /\ UNCHANGED <<listVars, current_playlist, current_index, uri, gst, icon, now_title,
                   now_meta, now_cover, workers, last_stream_texture, idleQ, atf>>
    /\ UNCHANGED <<seekVars, pageVars>>

----------------------------------------------------------------------------
(* GstPlayer._on_bus_message on the main loop: EOS, ERROR, TAG *)

\* _on_eos
Eos ==
    /\ gst = "PLAYING"
    /\ LET nxt == AdvanceIndex
       IN  IF nxt >= 0 THEN PlayTrackFrom(current_playlist, nxt)
           ELSE UNCHANGED playVars
    /\ lastOp' = Op("eos", current_playlist, current_index,
                    IF trans.phase \in {"advanced", "published"} /\ staged THEN "adv"
                    ELSE IF trans.phase = "none" /\ atf.pc = "idle" THEN "none"
                    ELSE "other")
    /\ trans' = NoTrans
    /\ scen' = IF scen = 3 THEN 4 ELSE 0
    /\ UNCHANGED <<listVars, last_stream_texture, idleQ, atf>>
    /\ UNCHANGED <<seekVars, pageVars>>

\* ERROR: parse_error and print, nothing else
BusError ==
    /\ gst = "PLAYING"
    /\ lastOp' = Op("error", current_playlist, current_index, "none")
    /\ scen' = 0
    /\ UNCHANGED <<listVars, playVars, last_stream_texture, idleQ, atf, trans>>
    /\ UNCHANGED <<seekVars, pageVars>>

\* _on_gst_tags.  img: "none" (no image tag), "bad" (no buffer, map failure or
\* undecodable bytes), "ok" (a texture).
TagEvent(title, artist, genre, img) ==
    /\ gst # "NULL"
    /\ LET late == staged /\ trans.phase = "published"
           q1 == IF title # "" \/ artist # "" \/ genre # ""
                 THEN Append(idleQ, TagsCb(title, artist, genre, late))
                 ELSE idleQ
           q2 == IF img = "ok" THEN Append(q1, CoverCb(EmbeddedTexture)) ELSE q1
       IN  /\ Len(q2) <= MaxIdle
           /\ idleQ' = q2
    /\ last_stream_texture' = IF img = "ok" THEN EmbeddedTexture ELSE last_stream_texture
    /\ lastOp' = OtherOp
    /\ scen' = 0
    /\ UNCHANGED <<listVars, playVars, atf, trans>>
    /\ UNCHANGED <<seekVars, pageVars>>

----------------------------------------------------------------------------
(* Callbacks queued with GLib.idle_add, run by the main loop oldest first *)

TagsTitle_Always(title, shown) == title

\* _update_now_playing_from_tags: if title: now_title.set_text(title)
TagsTitle(title, shown) == IF title # "" THEN title ELSE shown

\* _update_now_playing_from_tags: if artist or genre: now_meta.set_text(meta_line)
TagsMeta(artist, genre, shown) ==
    IF artist # "" \/ genre # ""
    THEN (IF artist # "" THEN artist
          ELSE IF genre # "" THEN "genre: " \o genre ELSE "")
    ELSE shown

KindsIn(q) == {q[k].kind : k \in 1..Len(q)}

IdleDispatch ==
    /\ idleQ # <<>>
    /\ LET cb == Head(idleQ)
           own == cb.kind = "labels" /\ trans.phase = "advanced"
                  /\ "labels" \notin KindsIn(Tail(idleQ))
       IN  /\ idleQ' = Tail(idleQ)
           /\ now_title' = CASE cb.kind = "labels" -> NowTitleOf(cb.track)
                             [] cb.kind = "tags" -> TagsTitle(cb.title, now_title)
                             [] OTHER -> now_title
           /\ now_meta' = CASE cb.kind = "labels" -> MetaLineOf(cb.track)
                            [] cb.kind = "tags" -> TagsMeta(cb.artist, cb.genre, now_meta)
                            [] OTHER -> now_meta
           /\ now_cover' = IF cb.kind = "cover" THEN cb.tex ELSE now_cover
           /\ trans' = IF own THEN [trans EXCEPT !.phase = "published"]
                       ELSE IF cb.kind # "cover" /\ trans.phase = "published"
                            THEN [trans EXCEPT !.phase = "stale"]
                       ELSE trans
           /\ scen' = CASE cb.kind = "labels" -> (IF scen = 2 /\ own THEN 3 ELSE 0)
                        [] cb.kind = "cover" -> scen
                        [] OTHER -> 0
           /\ lastOp' = IF cb.kind = "tags"
                        THEN Op("idle_tags", current_playlist, current_index,
                                IF cb.late THEN "late" ELSE "none")
                        ELSE OtherOp
    /\ UNCHANGED <<listVars, current_playlist, current_index, uri, gst, staged, icon,
                   workers, last_stream_texture, atf>>
    /\ UNCHANGED <<seekVars, pageVars>>

\* the cover worker of _play_track_from: fetch, decode, idle_add(set_paintable) if tex
WorkerDone(url, ok) ==
    /\ url \in workers
    /\ workers' = workers \ {url}
    /\ IF ok THEN /\ Len(idleQ) < MaxIdle
                  /\ idleQ' = Append(idleQ, CoverCb(RemoteTexture(url)))
       ELSE UNCHANGED idleQ
    /\ lastOp' = OtherOp
    /\ UNCHANGED <<listVars, current_playlist, current_index, uri, gst, staged, icon,
                   now_title, now_meta, now_cover, last_stream_texture, atf, trans, scen>>
    /\ UNCHANGED <<seekVars, pageVars>>

----------------------------------------------------------------------------
(* Queries and pages.  A query handler (on_search_artist, on_search_on_platform,  *)
(* load_artist_tracks, on_load_genre, on_prev_page, on_next_page) empties "all"   *)
(* and starts a _fetch_page thread; the thread hands its result to                *)
(* fill_track_list with GLib.idle_add.  fill_track_list touches local_tracks and  *)
(* list_all only, which no other idle callback touches, so it is run here when    *)
(* the thread ends rather than through idleQ.                                     *)

\* the lists of records a page request yields
PageResults == {<<TrackA, TrackB>>, <<TrackB, TrackA>>}

\* _clear_all_tracks
ClearAllTracks == <<>>

Fetch(kind, q) == [kind |-> kind, query |-> q]

\* a query or a prev/next page: _clear_all_tracks(), _threaded(_fetch_page, ...)
LoadPage(mode) ==
    /\ mode \in {"artist", "search", "genre"} \/ (mode = "page" /\ current_mode # "")
    /\ query < MaxQueries
    /\ query' = query + 1
    /\ local_tracks' = ClearAllTracks
    /\ local_from' = {}
    /\ pages' = pages \cup {Fetch("replace", query + 1)}
    /\ current_mode' = IF mode = "page" THEN current_mode ELSE mode
    /\ lastOp' = Op("load", "all", -1, "none")
    /\ scen' = 0
    /\ UNCHANGED <<selected_tracks, playVars, last_stream_texture, idleQ, atf, trans,
                   seekVars>>

\* on_load_more: _threaded(_fetch_page, ..., append=True), more of the same query
LoadMore ==
    /\ current_mode # ""
    /\ pages' = pages \cup {Fetch("append", query)}
    /\ lastOp' = OtherOp
    /\ scen' = 0
    /\ UNCHANGED <<listVars, playVars, last_stream_texture, idleQ, atf, trans, seekVars,
                   current_mode, query, local_from>>

\* if clear_first: self._clear_all_tracks()
FillBase(f) == IF f.kind = "replace" THEN ClearAllTracks ELSE local_tracks

\* fill_track_list(data, clear_first = not append, append) with the result of
\* fetch f; is_list: isinstance(data, list)
FillTrackList(f, data, is_list) ==
    /\ f \in pages
    /\ pages' = pages \ {f}
    /\ LET base == FillBase(f)
           filled == IF is_list THEN base \o data ELSE base
       IN  /\ Len(filled) <= MaxTracks
           /\ local_tracks' = filled
           /\ local_from' = (IF f.kind = "replace" THEN {} ELSE local_from)
                             \cup (IF is_list THEN {f.query} ELSE {})
    /\ lastOp' = Op("fill", "all", -1, f.kind)
    /\ scen' = 0
    /\ UNCHANGED <<selected_tracks, playVars, last_stream_texture, idleQ, atf, trans,
                   seekVars, current_mode, query>>

AppendSelected_Front(t) == <<t>> \o selected_tracks

\* self.selected_tracks.append(t)
AppendSelected(t) == Append(selected_tracks, t)

\* on_add_selected: the row selected in list_all, whose rows mirror local_tracks
AddSelected(k) ==
    /\ k \in 1..Len(local_tracks)
    /\ Len(selected_tracks) < MaxSelected
    /\ selected_tracks' = AppendSelected(local_tracks[k])
    /\ lastOp' = OtherOp
    /\ scen' = 0
    /\ UNCHANGED <<local_tracks, playVars, last_stream_texture, idleQ, atf, trans,
                   seekVars, pageVars>>

----------------------------------------------------------------------------
(* The seek bar and the position poll.  pos_scale's "value-changed" runs on_seek, *)
(* whoever changed the value: the user's drag, set_value, or set_range clamping   *)
(* the value into the new range.  An insensitive widget gets no input events.     *)

\* dur = 100  # Fallback for unknown duration
FallbackDur == 100

Min(a, b) == IF a < b THEN a ELSE b

\* on_seek as run by a value-changed that moved the value from old to new: the
\* number of seek_seconds calls it makes
OnSeek(old, new) == IF old # new /\ is_seeking THEN 1 ELSE 0

\* _on_seek_start: GestureClick "pressed"
SeekStart ==
    /\ sensitive
    /\ ~is_seeking
    /\ is_seeking' = TRUE
    /\ seeks' = 0
    /\ lastOp' = Op("press", "all", -1, "none")
    /\ scen' = 0
    /\ UNCHANGED <<listVars, playVars, last_stream_texture, idleQ, atf, trans, pageVars,
                   scale_value, scale_upper, sensitive, time_label, poll_armed>>

\* the user drags the slider to v during the gesture: value-changed, on_seek
SeekMove(v) ==
    /\ sensitive
    /\ is_seeking
    /\ seeks < MaxMoves
    /\ v \in 0..Min(scale_upper, MaxPos)
    /\ v # scale_value
    /\ scale_value' = v
    /\ seeks' = seeks + OnSeek(scale_value, v)
    /\ lastOp' = Op("move", "all", -1, "none")
    /\ scen' = 0
    /\ UNCHANGED <<listVars, playVars, last_stream_texture, idleQ, atf, trans, pageVars,
                   is_seeking, scale_upper, sensitive, time_label, poll_armed>>

\* _on_seek_end: GestureClick "released"
SeekEnd ==
    /\ is_seeking
    /\ is_seeking' = FALSE
    /\ lastOp' = Op("release", "all", -1, "none")
    /\ scen' = 0
    /\ UNCHANGED <<listVars, playVars, last_stream_texture, idleQ, atf, trans, pageVars,
                   scale_value, scale_upper, sensitive, time_label, poll_armed, seeks>>

\* query_pos_dur: (0, 0) from a playbin that cannot answer, as in NULL; else the
\* position and the duration in seconds, duration 0 while it is unknown
CanReport(pos, dur) ==
    IF gst = "NULL" THEN pos = 0 /\ dur = 0
    ELSE pos \in 0..MaxPos /\ dur \in 0..MaxPos /\ (dur = 0 \/ pos <= dur)

Interactive_Always(dur) == TRUE

\* if dur <= 0: set_sensitive(False) else: set_sensitive(True)
Interactive(dur) == dur > 0

\* return True, on the except path as well: GLib keeps the timeout source
PollReturn == TRUE

\* update_position, every 100 ms, with what query_pos_dur returned
Poll(pos, dur) ==
    /\ poll_armed
    /\ CanReport(pos, dur)
    /\ LET d == IF dur <= 0 THEN FallbackDur ELSE dur
           clamped == Min(scale_value, d)
           written == IF ~is_seeking THEN Min(pos, d) ELSE clamped
       IN  /\ sensitive' = Interactive(dur)
           /\ scale_upper' = d
           /\ scale_value' = written
           /\ seeks' = seeks + OnSeek(scale_value, clamped) + OnSeek(clamped, written)
           /\ time_label' = <<pos, d>>
    /\ poll_armed' = PollReturn
    /\ lastOp' = Op("poll", "all", dur, "none")
    /\ scen' = 0
    /\ UNCHANGED <<listVars, playVars, last_stream_texture, idleQ, atf, trans, pageVars,
                   is_seeking>>

----------------------------------------------------------------------------
(* Transport buttons *)

\* on_play_pause.  play() on a playbin without a uri fails its state change.
PlayPause ==
    /\ IF gst = "PLAYING"
       THEN /\ gst' = "PAUSED"
            /\ icon' = START_ICON
            /\ lastOp' = Op("toggle", current_playlist, current_index, "pause")
       ELSE /\ gst' = IF uri = "" THEN gst ELSE "PLAYING"
            /\ icon' = PAUSE_ICON
            /\ lastOp' = Op("toggle", current_playlist, current_index, "play")
    /\ trans' = IF gst = "NULL" THEN NoTrans ELSE trans
    /\ scen' = 0
    /\ UNCHANGED <<listVars, current_playlist, current_index, uri, staged, now_title,
                   now_meta, now_cover, workers, last_stream_texture, idleQ, atf,
                   seekVars, pageVars>>

\* on_stop.  set_state(NULL) ends the streaming threads, so it returns after a
\* running about-to-finish handler has; it drops a staged uri and flushes the bus.
\* pos_scale.set_value(0) emits value-changed when the value changes, which runs
\* on_seek.
Stop ==
    /\ atf.pc = "idle"
    /\ gst' = "NULL"
    /\ staged' = FALSE
    /\ icon' = START_ICON
    /\ scale_value' = 0
    /\ seeks' = seeks + OnSeek(scale_value, 0)
    /\ time_label' = <<0, 0>>
    /\ sensitive' = FALSE
    /\ lastOp' = Op("stop", current_playlist, current_index,
                    IF OnSeek(scale_value, 0) > 0 THEN "seek" ELSE "none")
    /\ trans' = NoTrans
    /\ scen' = 0
    /\ UNCHANGED <<listVars, current_playlist, current_index, uri, now_title, now_meta,
                   now_cover, workers, last_stream_texture, idleQ, atf, is_seeking,
                   scale_upper, poll_armed, pageVars>>

----------------------------------------------------------------------------
(* Spec: the cursor, the backend and the labels.  The text tags of an event are   *)
(* drawn from TextTags.  Cover deliveries (a worker's result, an embedded image)  *)
(* write now_cover only, which nothing here reads, and are not taken.             *)

TextTags == {<<"T", "X", "">>}

Next ==
    \/ \E pl \in {"all", "selected"} :
          \E i \in -1..Len(PlaylistOf(pl)) : PlayAt(pl, i)
    \/ AtfBegin
    \/ AtfFetch
    \/ AtfCommit
    \/ StreamSwitch
    \/ Eos
    \/ BusError
    \/ \E tg \in TextTags : TagEvent(tg[1], tg[2], tg[3], "none")
    \/ IdleDispatch

Spec == Init /\ [][Next]_vars

----------------------------------------------------------------------------
(* SpecLists: queries, pages, the selection and the stop button, from the        *)
(* state __init__ leaves: both playlists empty.                                   *)

InitEmpty == Init /\ local_tracks = <<>> /\ selected_tracks = <<>>

NextLists ==
    \/ \E mode \in {"search", "page"} : LoadPage(mode)
    \/ \E f \in pages : \E data \in PageResults :
          \E is_list \in BOOLEAN : FillTrackList(f, data, is_list)
    \/ \E k \in 1..MaxTracks : AddSelected(k)
    \/ \E pl \in {"all", "selected"} :
          \E i \in 0..(Len(PlaylistOf(pl)) - 1) : PlayAt(pl, i)
    \/ AtfBegin
    \/ AtfFetch
    \/ AtfCommit
    \/ StreamSwitch
    \/ Eos
    \/ IdleDispatch
    \/ Stop

SpecLists == InitEmpty /\ [][NextLists]_vars

----------------------------------------------------------------------------
(* SpecPages: queries, page changes and "load more" with their fetches in flight, *)
(* delivered in any order, while the user plays rows.                             *)

NextPages ==
    \/ \E mode \in {"artist", "search", "genre", "page"} : LoadPage(mode)
    \/ LoadMore
    \/ \E f \in pages : \E data \in PageResults :
          \E is_list \in BOOLEAN : FillTrackList(f, data, is_list)
    \/ \E i \in 0..(Len(local_tracks) - 1) : PlayAt("all", i)

SpecPages == InitEmpty /\ [][NextPages]_vars

----------------------------------------------------------------------------
(* SpecAuto: auto-advance left to itself.  Every record has a stream, one row is  *)
(* activated, and from then on only the backend and the main loop act.  playbin   *)
(* emits about-to-finish once per stream, from the streaming thread that is       *)
(* draining it, and the sinks post end-of-stream only after that handler has      *)
(* returned.  FairAuto: the backend keeps going (about-to-finish, the switch to a *)
(* staged uri or end-of-stream), a started handler finishes, and the main loop    *)
(* runs its idle callbacks.                                                       *)

InitAuto ==
    /\ Init
    /\ \A k \in 1..Len(local_tracks) : HasStream(local_tracks[k])
    /\ \A k \in 1..Len(selected_tracks) : HasStream(selected_tracks[k])

FirstPlay(playlist_name, index) == current_index = -1 /\ PlayAt(playlist_name, index)

AutoAboutToFinish == trans.phase = "none" /\ AtfBegin

AutoEos == atf.pc = "idle" /\ Eos

NextAuto ==
    \/ \E pl \in {"all", "selected"} :
          \E i \in 0..(Len(PlaylistOf(pl)) - 1) : FirstPlay(pl, i)
    \/ AutoAboutToFinish
    \/ AtfFetch
    \/ AtfCommit
    \/ StreamSwitch
    \/ AutoEos
    \/ IdleDispatch

SpecAuto == InitAuto /\ [][NextAuto]_vars

FairAuto ==
    /\ SpecAuto
    /\ WF_vars(AutoAboutToFinish \/ StreamSwitch \/ AutoEos)
    /\ WF_vars(AtfFetch)
    /\ WF_vars(AtfCommit)
    /\ WF_vars(IdleDispatch)

----------------------------------------------------------------------------
(* SpecTransport: the transport buttons, the seek bar and the position poll while *)
(* a page of two records plays.                                                   *)

InitPage == Init /\ local_tracks = <<TrackA, TrackB>> /\ selected_tracks = <<>>

NextTransport ==
    \/ \E i \in 0..(Len(local_tracks) - 1) : PlayAt("all", i)
    \/ AtfBegin
    \/ AtfFetch
    \/ AtfCommit
    \/ StreamSwitch
    \/ Eos
    \/ IdleDispatch
    \/ PlayPause
    \/ Stop
    \/ SeekStart
    \/ \E v \in 0..MaxPos : SeekMove(v)
    \/ SeekEnd
    \/ \E pos \in 0..MaxPos : \E dur \in 0..MaxPos : Poll(pos, dur)

SpecTransport == InitPage /\ [][NextTransport]_vars

----------------------------------------------------------------------------
(* SpecTags: tag events with every mix of fields and the cover deliveries, while  *)
(* a page of two records plays.                                                   *)

TagInputs == {<<"T", "X", "">>, <<"", "X", "">>, <<"", "", "G">>, <<"", "", "">>}

NextTags ==
    \/ \E i \in 0..(Len(local_tracks) - 1) : PlayAt("all", i)
    \/ \E tg \in TagInputs : \E img \in {"none", "bad", "ok"} :
          TagEvent(tg[1], tg[2], tg[3], img)
    \/ IdleDispatch
    \/ \E url \in workers : \E ok \in BOOLEAN : WorkerDone(url, ok)

SpecTags == InitPage /\ [][NextTags]_vars

----------------------------------------------------------------------------
(* SpecCover: the artwork across track changes: row activations, the gapless      *)
(* advance, remote cover fetches and embedded images, on a page of two records.   *)

NextCover ==
    \/ \E i \in 0..(Len(local_tracks) - 1) : PlayAt("all", i)
    \/ AtfBegin
    \/ AtfFetch
    \/ AtfCommit
    \/ StreamSwitch
    \/ \E img \in {"bad", "ok"} : TagEvent("", "", "", img)
    \/ IdleDispatch
    \/ \E url \in workers : \E ok \in BOOLEAN : WorkerDone(url, ok)

SpecCover == InitPage /\ [][NextCover]_vars

----------------------------------------------------------------------------
(* Properties *)

\* The labels show record t's remote title and its username-or-genre line.
ShowsRemote(t) ==
    /\ t.title # "" => now_title = t.title
    /\ t.title = "" => now_title = "Unknown"
    /\ t.user # "" => now_meta = t.user
    /\ t.user = "" /\ t.genre # "" => now_meta = "genre: " \o t.genre
    /\ t.user = "" /\ t.genre = "" /\ t.category # "" => now_meta = "genre: " \o t.category
    /\ t.user = "" /\ t.genre = "" /\ t.category = "" => now_meta = ""

PlayAtInRange == lastOp.op = "playAt" /\ InRange(lastOp.pl, lastOp.idx)

\* C1: playAt(P, i) on a record in range with a stream uri ends with the cursor at
\* (P, i), the backend holding that record's stream uri and playing, the button
\* showing pause, and the labels showing the record's remote title and its
\* username-or-genre line.
C1_PlayAtPlays ==
    (PlayAtInRange /\ At(lastOp.pl, lastOp.idx).stream_url # "")
    => LET t == At(lastOp.pl, lastOp.idx)
       IN  /\ current_playlist = lastOp.pl
           /\ current_index = lastOp.idx
           /\ uri = t.stream_url
           /\ gst = "PLAYING"
           /\ icon = PAUSE_ICON
           /\ ShowsRemote(t)

C1_Witness ==
    /\ PlayAtInRange
    /\ lastOp.pl = "selected" /\ lastOp.idx = 1
    /\ At("selected", 1) = TrackB
    /\ current_playlist = "selected" /\ current_index = 1
    /\ now_title = "Unknown" /\ now_meta = "genre: rock"

C3_InvalidIndexReported ==
    [][(lastOp'.op = "playAt" /\ ~InRange(lastOp'.pl, lastOp'.idx))
       => /\ lastOp'.info = "InvalidIndex"
          /\ UNCHANGED <<current_playlist, current_index, uri, gst, staged,
                         now_title, now_meta, now_cover>>]_vars

\* C4: _advance_index returns c + 1 exactly when c + 1 < n and -1 otherwise: -1 at
\* the last index and on an empty playlist, never 0 after a valid index.  In every
\* state for the cursor and the active playlist, and for every n and c in bounds.
C4_NextIndex ==
    /\ LET n == Len(PlaylistOf(current_playlist))
           c == current_index
       IN  /\ c + 1 < n => AdvanceIndex = c + 1
           /\ ~(c + 1 < n) => AdvanceIndex = -1
           /\ c >= 0 => AdvanceIndex # 0
           /\ atf.pc # "idle" => atf.nxt >= 1 \/ (atf.nxt = 0 /\ trans.idx = -1)
    /\ \A n \in 0..(MaxTracks + 1), c \in -1..(MaxTracks + 1) :
          /\ c + 1 < n => AdvanceIndexOf(n, c) = c + 1
          /\ ~(c + 1 < n) => AdvanceIndexOf(n, c) = -1

C4_Witness ==
    /\ trans.phase = "noop"
    /\ atf.pc = "idle"
    /\ Len(PlaylistOf(current_playlist)) = 3
    /\ current_index = 2
    /\ gst = "PLAYING"

\* C5: about-to-finish fired with the cursor at (P, i) and i + 1 in P: once the
\* handler and the label update it queued have run, the cursor is (P, i + 1) and
\* the labels show record i + 1's remote fields, while playbin has the next uri
\* staged and has neither switched nor reported end-of-stream.
C5_AboutToFinishAdvances ==
    trans.phase = "published"
    => /\ current_playlist = trans.pl
       /\ current_index = trans.idx + 1
       /\ trans.idx + 1 < Len(PlaylistOf(trans.pl))
       /\ ShowsRemote(At(trans.pl, trans.idx + 1))
       /\ uri = At(trans.pl, trans.idx + 1).stream_url
       /\ staged

C5_Witness ==
    /\ trans.phase = "published"
    /\ trans.pl = "selected" /\ trans.idx = 0
    /\ current_index = 1
    /\ At("selected", 1) = TrackB
    /\ now_title = "Unknown"
    /\ staged

\* C6: an end-of-stream that comes after about-to-finish moved the cursor from i to
\* i + 1, before playbin switched, changes nothing: the cursor stays, no uri is
\* loaded, the labels stay.
C6_NoDoubleAdvance ==
    [][(lastOp'.op = "eos" /\ lastOp'.info = "adv")
       => UNCHANGED <<current_playlist, current_index, uri, gst, staged,
                      now_title, now_meta>>]_vars

\* What end-of-stream without a staged next is to do with the cursor it found at
\* (pl, idx): play idx + 1 if the playlist has it, else be idle.
FallbackDone(pl, idx) ==
    IF idx + 1 < Len(PlaylistOf(pl))
    THEN At(pl, idx + 1).stream_url # ""
         => /\ current_playlist = pl
            /\ current_index = idx + 1
            /\ uri = At(pl, idx + 1).stream_url
            /\ gst = "PLAYING"
    ELSE icon # PAUSE_ICON /\ gst # "PLAYING"

\* C7: end-of-stream for a track about-to-finish never fired for: a full playAt on
\* the next index if there is one, else idle: the button no longer shows pause and
\* the backend is no longer playing.
C7_EosFallback ==
    (lastOp.op = "eos" /\ lastOp.info = "none") => FallbackDone(lastOp.pl, lastOp.idx)

\* C8: a backend error is handled as end-of-stream with nothing staged: a full
\* playAt on the next index if there is one, else idle.
C8_ErrorAdvances ==
    lastOp.op = "error" => FallbackDone(lastOp.pl, lastOp.idx)

\* C9: all = [A, B], both playable.  playAt(all, 0): playing, A's remote title (1).
\* about-to-finish, handler and queued labels: cursor index 1, B's stream staged
\* (2), B's remote title (3).  end-of-stream: nothing changes (4).  about-to-finish
\* again: nothing staged, cursor and labels as they were (5).
ScenAtSecond ==
    /\ current_playlist = "all" /\ current_index = 1
    /\ uri = local_tracks[2].stream_url
    /\ staged
    /\ gst = "PLAYING" /\ icon = PAUSE_ICON

C9_Scenario ==
    /\ scen = 1 => /\ current_playlist = "all" /\ current_index = 0
                   /\ gst = "PLAYING" /\ icon = PAUSE_ICON
                   /\ uri = local_tracks[1].stream_url
                   /\ ShowsRemote(local_tracks[1])
    /\ scen = 2 => ScenAtSecond /\ idleQ = <<LabelsCb(local_tracks[2])>>
    /\ scen \in {3, 4, 5} => ScenAtSecond /\ ShowsRemote(local_tracks[2])
    /\ scen = 5 => atf.pc = "idle" /\ "labels" \notin KindsIn(idleQ)

C9_Witness ==
    /\ scen = 5
    /\ local_tracks = <<TrackA, TrackB>>
    /\ now_title = "Unknown" /\ now_meta = "genre: rock"
    /\ current_index = 1 /\ uri = "s2"

\* C10: once about-to-finish has moved the cursor to i + 1 and record i + 1's labels
\* are shown, a tag event of the outgoing track i does not change the title or the
\* subtitle shown.
C10_TagsAttributed ==
    [][(lastOp'.op = "idle_tags" /\ lastOp'.info = "late"
        /\ trans.phase = "published" /\ staged)
       => UNCHANGED <<now_title, now_meta>>]_vars

\* C11: the about-to-finish handler's read of the playlist and its write of the
\* cursor are atomic with respect to user intents: when a playAt(P, j) that plays
\* ran after the handler fetched its next record, the handler's write does not put
\* the cursor or the backend uri on that stale next record: they stay at (P, j).
C11_AtfAtomic ==
    [][(atf.pc = "fetched" /\ atf'.pc = "idle"
        /\ lastOp.op = "playAt" /\ Plays(lastOp.pl, lastOp.idx))
       => /\ current_playlist' = lastOp.pl
          /\ current_index' = lastOp.idx
          /\ uri' = At(lastOp.pl, lastOp.idx).stream_url]_vars

\* C12: a query or page change that replaces "all" while "all" is the active
\* playlist with a valid cursor stops playback or clears the cursor to -1, so that
\* no later about-to-finish or end-of-stream stages or plays the record of the new
\* list at the old index + 1.
C12_ReplaceStops ==
    [][(lastOp'.op = "load" /\ current_playlist = "all" /\ current_index >= 0)
       => (gst' = "NULL" \/ current_index' = -1)]_vars

\* C20: "selected" only grows at its end: in every step its old value is a prefix of
\* its new value, whatever the step is (query, page, fill, playback event, stop).
C20_SelectedAppendOnly ==
    [][/\ Len(selected_tracks) <= Len(selected_tracks')
       /\ SubSeq(selected_tracks', 1, Len(selected_tracks)) = selected_tracks]_vars

C20_Witness ==
    /\ selected_tracks = <<TrackA, TrackB>>
    /\ lastOp.op = "load"
    /\ local_tracks = <<>>
    /\ current_playlist = "selected" /\ current_index = 1
    /\ gst = "NULL"

\* C13: a poll tick that runs while the seeking latch is set leaves the displayed
\* position (the slider's value) as it was; a poll tick that runs while the latch
\* is clear, the first after a release included, sets it to the position the
\* backend reported.
C13_LatchGuardsPoll ==
    [][lastOp'.op = "poll"
       => IF is_seeking THEN scale_value' = scale_value
          ELSE scale_value' = time_label'[1]]_vars

\* C14: between latch-set and latch-clear exactly one seek call is issued, and it is
\* issued by the step that ends the gesture, never by a step that leaves the latch
\* set.
C14_OneSeekPerGesture ==
    [][/\ (is_seeking /\ ~is_seeking') => seeks' = 1
       /\ (is_seeking' /\ lastOp'.op # "press") => seeks' = seeks]_vars

\* C18: togglePlayPause from Idle (playbin in NULL: nothing loaded yet, or stopped)
\* calls neither play() nor pause() and does not show the pause icon; from Playing
\* it pauses, from Paused it resumes.
C18_ToggleFromIdle ==
    [][lastOp'.op = "toggle"
       => CASE gst = "NULL" -> /\ lastOp'.info = "none"
                               /\ gst' = "NULL"
                               /\ icon' # PAUSE_ICON
            [] gst = "PLAYING" -> lastOp'.info = "pause" /\ gst' = "PAUSED"
            [] OTHER -> lastOp'.info = "play" /\ gst' = "PLAYING"]_vars

\* C19: stop puts playbin in NULL, shows the start icon and position zero (slider
\* and time label) and issues no seek; while playbin stays in NULL no step other
\* than a playAt moves the cursor.
C19_StopIdles ==
    [][/\ lastOp'.op = "stop"
          => /\ gst' = "NULL"
             /\ icon' = START_ICON
             /\ scale_value' = 0 /\ time_label' = <<0, 0>>
             /\ seeks' = seeks /\ lastOp'.info = "none"
       /\ (gst = "NULL" /\ gst' = "NULL" /\ lastOp'.op # "playAt")
          => UNCHANGED <<current_playlist, current_index>>]_vars

\* The main loop runs a tags callback that carries these fields.
RunsTags(title, artist, genre) ==
    /\ idleQ # <<>>
    /\ Head(idleQ).kind = "tags"
    /\ Head(idleQ).title = title /\ Head(idleQ).artist = artist
    /\ Head(idleQ).genre = genre
    /\ idleQ' = Tail(idleQ)

\* C15: a tag event with only {artist: "X"}: the handler itself changes nothing on
\* display, and the callback it queued sets the subtitle to "X" and leaves the
\* title and the artwork as they were.
C15_ArtistOnly ==
    [][/\ RunsTags("", "X", "")
          => now_meta' = "X" /\ UNCHANGED <<now_title, now_cover>>
       /\ (idleQ' # idleQ /\ idleQ' # <<>> /\ idleQ'[Len(idleQ')].kind = "tags"
           /\ Len(idleQ') > Len(idleQ))
          => UNCHANGED <<now_title, now_meta, now_cover>>]_vars

C15_Witness ==
    /\ lastOp.op = "idle_tags"
    /\ now_title = "A"
    /\ now_meta = "X"
    /\ now_cover = RemoteTexture("http://img/a.jpg")
    /\ current_index = 0

\* C16: tag events are applied field by field: a callback whose event has no title
\* keeps the title shown, and one whose event has no artist keeps the artist "X"
\* that an earlier event put on the subtitle.
C16_Incremental ==
    [][\A tg \in TagInputs :
          RunsTags(tg[1], tg[2], tg[3])
          => /\ tg[1] = "" => now_title' = now_title
             /\ (tg[2] = "" /\ now_meta = "X") => now_meta' = "X"]_vars

\* C17: once an embedded image is on display it stays until the next track change
\* (a playAt): no cover delivery of a remote fetch replaces it.
C17_EmbeddedAuthoritative ==
    [][(now_cover.src = "embedded" /\ lastOp'.op # "playAt")
       => now_cover'.src = "embedded"]_vars

\* C21: once about-to-finish has moved the cursor to i + 1 and the labels it queued
\* are shown, title, subtitle and artwork all derive from record i + 1: the
\* artwork is that record's remote picture or none, not a picture (remote or
\* embedded) that was on display for record i.
C21_MetadataRecreated ==
    trans.phase = "published"
    => LET t == At(trans.pl, trans.idx + 1)
       IN  /\ ShowsRemote(t)
           /\ now_cover \in {NoTexture, RemoteTexture(t.art)}

\* C27: a remote picture delivered for a record other than the one at the cursor
\* does not replace the artwork on display.
C27_RemoteArtworkCurrent ==
    [][(/\ idleQ # <<>> /\ idleQ' = Tail(idleQ)
        /\ Head(idleQ).kind = "cover" /\ Head(idleQ).tex.src = "remote"
        /\ InRange(current_playlist, current_index)
        /\ Head(idleQ).tex.id # At(current_playlist, current_index).art)
       => now_cover' = now_cover]_vars

\* C22: no feedback from the display to the backend: a poll tick (its range update
\* included) and stop issue no seek call; the only step that issues one is a
\* slider movement by the user while the latch is set.
C22_NoFeedbackLoop ==
    [][/\ lastOp'.op \in {"poll", "stop"} => seeks' = seeks
       /\ seeks' > seeks => (lastOp'.op = "move" /\ is_seeking)]_vars

\* C23: after a poll tick the seek control is interactive exactly when the backend
\* reported a duration above zero, and then the slider's range ends at that
\* duration; and the poll stays installed, whatever the backend state.
C23_PollSensitivity ==
    /\ poll_armed
    /\ lastOp.op = "poll"
       => /\ sensitive <=> lastOp.idx > 0
          /\ lastOp.idx > 0 => scale_upper = lastOp.idx
          /\ lastOp.idx <= 0 => ~sensitive

C23_Witness ==
    /\ lastOp.op = "poll" /\ lastOp.idx = 0
    /\ gst = "PAUSED"
    /\ ~sensitive
    /\ scale_upper = FallbackDur
    /\ time_label = <<1, FallbackDur>>

\* C24: a superseded catalog response is discarded: once every fetch has delivered
\* its result, in whatever order, "all" holds records of the latest query only.
C24_SupersededDiscarded ==
    pages = {} => local_from \subseteq {query}

AtLast == current_index = Len(PlaylistOf(current_playlist)) - 1

\* C25: auto-advance terminates at the end of the playlist: once a row plays, the
\* cursor index never decreases, it eventually is the last index and stays there
\* forever, and at the last index no step loads a uri.
C25_AutoAdvanceTerminates ==
    /\ [][current_index >= 0 => current_index' >= current_index]_vars
    /\ [][(current_index >= 0 /\ AtLast) => UNCHANGED <<current_index, uri>>]_vars
    /\ (current_index >= 0) ~> [](AtLast)

C25_Witness ==
    /\ Len(local_tracks) = 3
    /\ current_playlist = "all" /\ current_index = 2
    /\ lastOp.op = "eos" /\ lastOp.idx = 2
    /\ gst = "PLAYING"

\* C26: the handlers never read a playlist outside 0..len-1: the cursor index is
\* at least -1, the active playlist is "all" or "selected", and when the
\* about-to-finish handler reads the record at the index it computed, that index
\* is below the length the active playlist has at that moment.
C26_IndexSafety ==
    [][/\ current_index' >= -1
       /\ current_playlist' \in {"all", "selected"}
       /\ (atf.pc = "computed" /\ atf'.pc # "computed")
          => InRange(current_playlist, atf.nxt)]_vars

====
